---- MODULE Spec2Model ----
(***************************************************************************)
(* Crop-yield analysis (main.py): load -> group/count -> reduce.           *)
(*                                                                         *)
(* A Python dict is modelled as the sequence of its <<key, value>> items   *)
(* in insertion order (the order dict iteration and dict.items() follow).  *)
(* A float is modelled exactly: a parsed yield is an integer number of     *)
(* tenths, and a quotient is the reduced fraction <<num, den>>.            *)
(* Every for-loop advances one iteration per step.  No function of the     *)
(* program catches an exception, so a raise unwinds the whole call stack.  *)
(***************************************************************************)
EXTENDS Integers, Sequences, FiniteSets, TLC

VARIABLES data, top, stack, pc, i, crop_yields, averages, region_crops,
          result, average_yields, main_region_crops, log, ret, err,
          category_sales, ref

vars == <<data, top, stack, pc, i, crop_yields, averages, region_crops,
          result, average_yields, main_region_crops, log, ret, err,
          category_sales, ref>>

(* ------------------------------ bounds --------------------------------- *)

\* Longest dataset explored.
MaxLen == 3

\* Longest dataset explored when the dataset is replaced between calls.
MaxRepeatLen == 2

\* Longest yield series of a hand-built crop-yield index.
MaxSeries == 2

(* ------------------------------ inputs --------------------------------- *)

Regions == {"Region1", "Region2"}

Crops == {"Wheat", "Rice", "Corn"}

YieldCrops == {"Wheat", "Rice"}

\* Python's None: csv.DictReader stores it for a field a short row lacks.
None == "<None>"

\* Texts of the Yield_tons_per_hectare field: two numbers, the empty text,
\* a non-numeric text, and None.
YieldFields == {"5.5", "4.8", "", "abc", None}

Row(region, crop, yield) ==
    [Region |-> region, Crop |-> crop, Yield_tons_per_hectare |-> yield]

\* A record without the Yield_tons_per_hectare key (a hand-built dict, or
\* a CSV whose header has no such column).
RowNoYield(region, crop) == [Region |-> region, Crop |-> crop]

SeqsUpTo(S, n) == UNION {[1..k -> S] : k \in 0..n}

\* Rows that exercise the yield field: one region, any yield field.
YieldRows ==
    {Row("Region1", c, y) : c \in YieldCrops, y \in YieldFields}
        \cup {RowNoYield("Region1", c) : c \in YieldCrops}

\* Rows that exercise the region/crop counts: a valid yield.
RegionRows == {Row(r, c, "5.5") : r \in Regions, c \in Crops}

Datasets == SeqsUpTo(YieldRows, MaxLen) \cup SeqsUpTo(RegionRows, MaxLen)

RepeatDatasets == SeqsUpTo({Row(r, c, "5.5") : r \in Regions, c \in YieldCrops},
                           MaxRepeatLen)

(* --------------------------- dict helpers ------------------------------ *)

KeySet(d) == {d[k][1] : k \in 1..Len(d)}

Has(d, key) == key \in KeySet(d)

Idx(d, key) == CHOOSE k \in 1..Len(d) : d[k][1] = key

Get(d, key) == d[Idx(d, key)][2]

\* d[key] = value: an existing key keeps its position, a new key goes last.
Put(d, key, value) ==
    IF Has(d, key) THEN [d EXCEPT ![Idx(d, key)] = <<key, value>>]
    ELSE Append(d, <<key, value>>)

(* --------------------------- float helpers ----------------------------- *)

\* The texts float() accepts, with their value in tenths.
IsNumeric(s) == s \in {"5.5", "4.8", "4.2", "6.0", "5.0"}

ParseFloat(s) ==
    CASE s = "5.5" -> 55
      [] s = "4.8" -> 48
      [] s = "4.2" -> 42
      [] s = "6.0" -> 60
      [] s = "5.0" -> 50

\* The exception of float(row['Yield_tons_per_hectare']), "" when none:
\* the subscript raises KeyError, float(None) TypeError, float('') and
\* float('abc') ValueError.
YieldError(row) ==
    IF "Yield_tons_per_hectare" \notin DOMAIN row THEN "KeyError"
    ELSE IF row.Yield_tons_per_hectare = None THEN "TypeError"
    ELSE IF ~IsNumeric(row.Yield_tons_per_hectare) THEN "ValueError"
    ELSE ""

RECURSIVE SumFrom(_, _)
SumFrom(s, k) == IF k > Len(s) THEN 0 ELSE s[k] + SumFrom(s, k + 1)

\* sum(yields)
Sum(s) == SumFrom(s, 1)

RECURSIVE Gcd(_, _)
Gcd(a, b) == IF b = 0 THEN a ELSE Gcd(b, a % b)

\* a / b for b > 0, as a reduced fraction.
TrueDiv(a, b) == <<a \div Gcd(a, b), b \div Gcd(a, b)>>

(* ------------------------------- state --------------------------------- *)

Init ==
    /\ data \in Datasets
    /\ top = ""
    /\ stack = << >>
    /\ pc = "idle"
    /\ i = 0
    /\ crop_yields = << >>
    /\ averages = << >>
    /\ region_crops = << >>
    /\ result = << >>
    /\ average_yields = << >>
    /\ main_region_crops = << >>
    /\ log = << >>
    /\ ret = << >>
    /\ err = ""
    /\ category_sales = << >>
    /\ ref = << >>

\* A call may start when nothing is running.
Quiet == pc \in {"idle", "returned", "raised"}

\* The locals of every frame, as they are when no frame exists.
NoLocals ==
    /\ crop_yields' = << >>
    /\ averages' = << >>
    /\ region_crops' = << >>
    /\ result' = << >>
    /\ average_yields' = << >>
    /\ main_region_crops' = << >>

\* Variant: the exception is swallowed and the loop's index so far is
\* handed back.
RaisePartial(exc) ==
    /\ pc' = "returned"
    /\ err' = ""
    /\ stack' = << >>
    /\ ret' = crop_yields
    /\ NoLocals
    /\ UNCHANGED <<data, top, i, log, category_sales, ref>>

\* An uncaught exception: every frame is discarded and nothing is returned.
\* i keeps the position of the record being processed.
Raise(exc) ==
    /\ pc' = "raised"
    /\ err' = exc
    /\ stack' = << >>
    /\ ret' = << >>
    /\ NoLocals
    /\ UNCHANGED <<data, top, i, log, category_sales, ref>>

\* Variant: the first report is written before the second is computed.
MainOrderEarlyWrite == <<"load_data", "calculate_average_yield",
                         "open average_yield_results.csv",
                         "most_frequent_crop_by_region",
                         "open most_common_crops_by_region.txt">>

\* The statements of main(), in program order.
MainOrder == <<"load_data", "calculate_average_yield",
               "most_frequent_crop_by_region",
               "open average_yield_results.csv",
               "open most_common_crops_by_region.txt">>

(* ----------------------- group_yields_by_crop -------------------------- *)

\* Variant: the value replaces the crop's list.
AppendYieldReplace(cy, crop, value) == Put(cy, crop, <<value>>)

\* Variant: a new key gets its empty list and the value is dropped.
AppendYieldLate(cy, crop, value) ==
    IF Has(cy, crop) THEN Put(cy, crop, Append(Get(cy, crop), value))
    ELSE Put(cy, crop, << >>)

\* crop_yields[crop].append(yield_value), after creating the key if absent.
AppendYield(cy, crop, value) ==
    IF Has(cy, crop) THEN Put(cy, crop, Append(Get(cy, crop), value))
    ELSE Put(cy, crop, <<value>>)

\* The first statement of group_yields_by_crop.
EnterGroup ==
    /\ crop_yields' = << >>
    /\ i' = 1
    /\ pc' = "g_loop"

CallGroup ==
    /\ Quiet
    /\ top' = "group_yields_by_crop"
    /\ stack' = <<"group_yields_by_crop">>
    /\ EnterGroup
    /\ err' = ""
    /\ ret' = << >>
    /\ log' = << >>
    /\ averages' = << >>
    /\ region_crops' = << >>
    /\ result' = << >>
    /\ average_yields' = << >>
    /\ main_region_crops' = << >>
    /\ UNCHANGED <<data, category_sales, ref>>

\* One iteration of the loop over data.
GroupStep ==
    /\ pc = "g_loop"
    /\ i <= Len(data)
    /\ IF YieldError(data[i]) # ""
       THEN Raise(YieldError(data[i]))
       ELSE /\ crop_yields' = AppendYield(crop_yields, data[i].Crop,
                                  ParseFloat(data[i].Yield_tons_per_hectare))
            /\ i' = i + 1
            /\ UNCHANGED <<data, top, stack, pc, averages, region_crops,
                           result, average_yields, main_region_crops, log,
                           ret, err, category_sales, ref>>

\* return crop_yields
GroupReturn ==
    /\ pc = "g_loop"
    /\ i > Len(data)
    /\ IF Len(stack) = 1
       THEN /\ ret' = crop_yields
            /\ pc' = "returned"
            /\ stack' = << >>
            /\ crop_yields' = << >>
            /\ i' = 0
            /\ UNCHANGED averages
       ELSE \* back in calculate_average_yield, about to loop over the items
            /\ stack' = SubSeq(stack, 1, Len(stack) - 1)
            /\ pc' = "a_loop"
            /\ i' = 1
            /\ averages' = << >>
            /\ UNCHANGED <<crop_yields, ret>>
    /\ UNCHANGED <<data, top, region_crops, result, average_yields,
                   main_region_crops, log, err, category_sales, ref>>

(* ---------------------- calculate_average_yield ------------------------ *)

\* Variant: the first value is left out of the sum.
AverageSkipFirst(yields) == TrueDiv(SumFrom(yields, 2), Len(yields))

\* sum(yields) / len(yields)
Average(yields) == TrueDiv(Sum(yields), Len(yields))

CallAverage ==
    /\ Quiet
    /\ top' = "calculate_average_yield"
    /\ stack' = <<"calculate_average_yield", "group_yields_by_crop">>
    /\ EnterGroup
    /\ err' = ""
    /\ ret' = << >>
    /\ log' = << >>
    /\ averages' = << >>
    /\ region_crops' = << >>
    /\ result' = << >>
    /\ average_yields' = << >>
    /\ main_region_crops' = << >>
    /\ UNCHANGED <<data, category_sales, ref>>

\* One iteration of the loop over crop_yields.items().
AverageStep ==
    /\ pc = "a_loop"
    /\ i <= Len(crop_yields)
    /\ IF Len(crop_yields[i][2]) = 0
       THEN Raise("ZeroDivisionError")
       ELSE /\ averages' = Put(averages, crop_yields[i][1],
                               Average(crop_yields[i][2]))
            /\ i' = i + 1
            /\ UNCHANGED <<data, top, stack, pc, crop_yields, region_crops,
                           result, average_yields, main_region_crops, log,
                           ret, err, category_sales, ref>>

\* return averages
AverageReturn ==
    /\ pc = "a_loop"
    /\ i > Len(crop_yields)
    /\ IF Len(stack) = 1
       THEN /\ ret' = averages
            /\ pc' = "returned"
            /\ stack' = << >>
            /\ UNCHANGED <<average_yields, log>>
       ELSE \* back in main(): average_yields = ...
            /\ stack' = SubSeq(stack, 1, Len(stack) - 1)
            /\ average_yields' = averages
            /\ log' = Append(log, "calculate_average_yield")
            /\ pc' = "m_step"
            /\ UNCHANGED ret
    /\ crop_yields' = << >>
    /\ averages' = << >>
    /\ i' = 0
    /\ UNCHANGED <<data, top, region_crops, result, main_region_crops, err,
                   category_sales, ref>>

(* -------------------- most_frequent_crop_by_region --------------------- *)

\* Variant: one dict shared by all the calls.
SharedRegionCrops(old) == old

\* region_crops = {}: the name is bound to a new dict whatever dict an
\* earlier call left behind.
FreshRegionCrops(old) == << >>

\* Variant: the count is set to 1 instead of incremented.
CountCropReset(rc, region, crop) ==
    LET crops == IF Has(rc, region) THEN Get(rc, region) ELSE << >>
    IN  Put(rc, region, Put(crops, crop, 1))

\* region_crops[region][crop] += 1, after creating the entries if absent.
CountCrop(rc, region, crop) ==
    LET crops == IF Has(rc, region) THEN Get(rc, region) ELSE << >>
        count == IF Has(crops, crop) THEN Get(crops, crop) ELSE 0
    IN  Put(rc, region, Put(crops, crop, count + 1))

\* Variant: the first item, whatever its count.
MaxItemFirst(items) == items[1]

RECURSIVE MaxFromLast(_, _, _)
MaxFromLast(items, k, best) ==
    IF k > Len(items) THEN best
    ELSE MaxFromLast(items, k + 1,
                     IF items[k][2] >= best[2] THEN items[k] ELSE best)

\* Variant: the last item whose count no other item exceeds.
MaxItemLast(items) == MaxFromLast(items, 2, items[1])

RECURSIVE MaxFrom(_, _, _)
MaxFrom(items, k, best) ==
    IF k > Len(items) THEN best
    ELSE MaxFrom(items, k + 1,
                 IF items[k][2] > best[2] THEN items[k] ELSE best)

\* max(crops.items(), key=lambda x: x[1]): the first item, in iteration
\* order, whose count no other item exceeds.
MaxItem(items) == MaxFrom(items, 2, items[1])

\* The first statement of most_frequent_crop_by_region.
EnterFreq ==
    /\ region_crops' = FreshRegionCrops(region_crops)
    /\ i' = 1
    /\ pc' = "f_count"

\* A top-level call most_frequent_crop_by_region(d).
StartFreq(d) ==
    /\ Quiet
    /\ data' = d
    /\ top' = "most_frequent_crop_by_region"
    /\ stack' = <<"most_frequent_crop_by_region">>
    /\ EnterFreq
    /\ err' = ""
    /\ ret' = << >>
    /\ log' = << >>
    /\ crop_yields' = << >>
    /\ averages' = << >>
    /\ result' = << >>
    /\ average_yields' = << >>
    /\ main_region_crops' = << >>
    /\ UNCHANGED <<category_sales, ref>>

CallFreq == StartFreq(data)

\* One iteration of the counting loop over data.
FreqCountStep ==
    /\ pc = "f_count"
    /\ i <= Len(data)
    /\ region_crops' = CountCrop(region_crops, data[i].Region, data[i].Crop)
    /\ i' = i + 1
    /\ UNCHANGED <<data, top, stack, pc, crop_yields, averages, result,
                   average_yields, main_region_crops, log, ret, err,
                   category_sales, ref>>

\* result = {}, between the two loops.
FreqCounted ==
    /\ pc = "f_count"
    /\ i > Len(data)
    /\ result' = << >>
    /\ i' = 1
    /\ pc' = "f_select"
    /\ UNCHANGED <<data, top, stack, crop_yields, averages, region_crops,
                   average_yields, main_region_crops, log, ret, err,
                   category_sales, ref>>

\* One iteration of the loop over region_crops.items().
FreqSelectStep ==
    /\ pc = "f_select"
    /\ i <= Len(region_crops)
    /\ result' = Put(result, region_crops[i][1],
                     MaxItem(region_crops[i][2])[1])
    /\ i' = i + 1
    /\ UNCHANGED <<data, top, stack, pc, crop_yields, averages, region_crops,
                   average_yields, main_region_crops, log, ret, err,
                   category_sales, ref>>

\* return result
FreqReturn ==
    /\ pc = "f_select"
    /\ i > Len(region_crops)
    /\ IF Len(stack) = 1
       THEN /\ ret' = result
            /\ pc' = "returned"
            /\ stack' = << >>
            /\ UNCHANGED <<main_region_crops, log>>
       ELSE \* back in main(): region_crops = ...
            /\ stack' = SubSeq(stack, 1, Len(stack) - 1)
            /\ main_region_crops' = result
            /\ log' = Append(log, "most_frequent_crop_by_region")
            /\ pc' = "m_step"
            /\ UNCHANGED ret
    /\ result' = << >>
    /\ i' = 0
    /\ UNCHANGED <<data, top, crop_yields, averages, region_crops,
                   average_yields, err, category_sales, ref>>

(* ------------------------------- main ---------------------------------- *)

\* A dataset csv.DictReader can produce: every row has the header's keys.
FromCsv(d) == \A m, n \in 1..Len(d) : DOMAIN d[m] = DOMAIN d[n]

\* The statement main() is at, None once the last one is done.
Statement == IF Len(log) < Len(MainOrder) THEN MainOrder[Len(log) + 1]
             ELSE None

CallMain ==
    /\ Quiet
    /\ FromCsv(data)
    /\ top' = "main"
    /\ stack' = <<"main">>
    /\ pc' = "m_step"
    /\ log' = << >>
    /\ i' = 0
    /\ err' = ""
    /\ ret' = << >>
    /\ NoLocals
    /\ UNCHANGED <<data, category_sales, ref>>

\* data = load_data(file_path): open() raises when crop_yield.csv is absent.
MainLoad ==
    /\ pc = "m_step"
    /\ Statement = "load_data"
    /\ \E found \in BOOLEAN :
          IF found
          THEN /\ log' = Append(log, "load_data")
               /\ UNCHANGED <<data, top, stack, pc, i, crop_yields, averages,
                              region_crops, result, average_yields,
                              main_region_crops, ret, err, category_sales,
                              ref>>
          ELSE Raise("FileNotFoundError")

\* average_yields = calculate_average_yield(data): the call.
MainAverage ==
    /\ pc = "m_step"
    /\ Statement = "calculate_average_yield"
    /\ stack' = stack \o <<"calculate_average_yield", "group_yields_by_crop">>
    /\ EnterGroup
    /\ UNCHANGED <<data, top, averages, region_crops, result, average_yields,
                   main_region_crops, log, ret, err, category_sales, ref>>

\* region_crops = most_frequent_crop_by_region(data): the call.
MainFreq ==
    /\ pc = "m_step"
    /\ Statement = "most_frequent_crop_by_region"
    /\ stack' = Append(stack, "most_frequent_crop_by_region")
    /\ EnterFreq
    /\ UNCHANGED <<data, top, crop_yields, averages, result, average_yields,
                   main_region_crops, log, ret, err, category_sales, ref>>

\* The two with open(..., 'w') blocks: the file is created or truncated
\* and its rows are written.
MainWrite ==
    /\ pc = "m_step"
    /\ Statement \in {"open average_yield_results.csv",
                      "open most_common_crops_by_region.txt"}
    /\ log' = Append(log, Statement)
    /\ UNCHANGED <<data, top, stack, pc, i, crop_yields, averages,
                   region_crops, result, average_yields, main_region_crops,
                   ret, err, category_sales, ref>>

\* main() falls off its end.
MainReturn ==
    /\ pc = "m_step"
    /\ Statement = None
    /\ pc' = "returned"
    /\ stack' = << >>
    /\ ret' = << >>
    /\ average_yields' = << >>
    /\ main_region_crops' = << >>
    /\ UNCHANGED <<data, top, i, crop_yields, averages, region_crops, result,
                   log, err, category_sales, ref>>

(* ------------- calculate_average (the variant test_main.py tests) ------ *)

\* Hand-built crop-yield indexes: distinct crop keys in any order, each
\* with a series of at most MaxSeries values, the empty series included.
Series == SeqsUpTo({55, 48}, MaxSeries)

Indexes ==
    {<< >>}
        \cup {<<<<c, s>>>> : c \in YieldCrops, s \in Series}
        \cup {<<<<p[1], s>>, <<p[2], t>>>> :
                 p \in {q \in YieldCrops \X YieldCrops : q[1] # q[2]},
                 s \in Series, t \in Series}

\* The quotient of one crop's series; "" for the error of an empty one.
SeriesError(values) == IF Len(values) = 0 THEN "ZeroDivisionError" ELSE ""

CallCalcAverage ==
    /\ Quiet
    /\ top' = "calculate_average"
    /\ stack' = <<"calculate_average">>
    /\ pc' = "c_loop"
    /\ i' = 1
    /\ err' = ""
    /\ ret' = << >>
    /\ log' = << >>
    /\ NoLocals
    /\ UNCHANGED <<data, category_sales, ref>>

\* Variant: a crop with an empty series is skipped.
CalcAverageStepSkip ==
    /\ pc = "c_loop"
    /\ i <= Len(category_sales)
    /\ averages' = IF Len(category_sales[i][2]) = 0 THEN averages
                   ELSE Put(averages, category_sales[i][1],
                            Average(category_sales[i][2]))
    /\ i' = i + 1
    /\ UNCHANGED <<data, top, stack, pc, crop_yields, region_crops, result,
                   average_yields, main_region_crops, log, ret, err,
                   category_sales, ref>>

\* One iteration of the loop over category_sales.items().
CalcAverageStep ==
    /\ pc = "c_loop"
    /\ i <= Len(category_sales)
    /\ IF SeriesError(category_sales[i][2]) # ""
       THEN Raise(SeriesError(category_sales[i][2]))
       ELSE /\ averages' = Put(averages, category_sales[i][1],
                               Average(category_sales[i][2]))
            /\ i' = i + 1
            /\ UNCHANGED <<data, top, stack, pc, crop_yields, region_crops,
                           result, average_yields, main_region_crops, log,
                           ret, err, category_sales, ref>>

CalcAverageReturn ==
    /\ pc = "c_loop"
    /\ i > Len(category_sales)
    /\ ret' = averages
    /\ pc' = "returned"
    /\ stack' = << >>
    /\ averages' = << >>
    /\ i' = 0
    /\ UNCHANGED <<data, top, crop_yields, region_crops, result,
                   average_yields, main_region_crops, log, err,
                   category_sales, ref>>

(* ------------------------- repeated invocation ------------------------- *)

\* The next call is made on any dataset, the one of the last call or
\* another.
CallFreqOn == \E d \in RepeatDatasets : StartFreq(d)

\* The caller's notes: <<dataset, mapping returned, between>>.  It keeps
\* what one call returned with the dataset it was called on, and marks
\* `between' once a later call on another dataset has returned.
Remember ==
    /\ pc = "returned"
    /\ top = "most_frequent_crop_by_region"
    /\ \/ /\ ref = << >>
          /\ ref' = <<data, ret, FALSE>>
       \/ /\ ref # << >>
          /\ data # ref[1]
          /\ ~ref[3]
          /\ ref' = <<ref[1], ref[2], TRUE>>
    /\ UNCHANGED <<data, top, stack, pc, i, crop_yields, averages,
                   region_crops, result, average_yields, main_region_crops,
                   log, ret, err, category_sales>>

(* --------------------------- specifications ---------------------------- *)

Next ==
    \/ CallGroup
    \/ GroupStep
    \/ GroupReturn
    \/ CallAverage
    \/ AverageStep
    \/ AverageReturn
    \/ CallFreq
    \/ FreqCountStep
    \/ FreqCounted
    \/ FreqSelectStep
    \/ FreqReturn
    \/ CallMain
    \/ MainLoad
    \/ MainAverage
    \/ MainFreq
    \/ MainWrite
    \/ MainReturn

Spec == Init /\ [][Next]_vars

\* calculate_average on hand-built indexes.
InitIndex ==
    /\ data = << >>
    /\ top = ""
    /\ stack = << >>
    /\ pc = "idle"
    /\ i = 0
    /\ crop_yields = << >>
    /\ averages = << >>
    /\ region_crops = << >>
    /\ result = << >>
    /\ average_yields = << >>
    /\ main_region_crops = << >>
    /\ log = << >>
    /\ ret = << >>
    /\ err = ""
    /\ category_sales \in Indexes
    /\ ref = << >>

NextIndex ==
    \/ CallCalcAverage
    \/ CalcAverageStep
    \/ CalcAverageReturn

SpecIndex == InitIndex /\ [][NextIndex]_vars

\* most_frequent_crop_by_region called again and again, on datasets that
\* change between the calls.
InitRepeat ==
    /\ data \in RepeatDatasets
    /\ top = ""
    /\ stack = << >>
    /\ pc = "idle"
    /\ i = 0
    /\ crop_yields = << >>
    /\ averages = << >>
    /\ region_crops = << >>
    /\ result = << >>
    /\ average_yields = << >>
    /\ main_region_crops = << >>
    /\ log = << >>
    /\ ret = << >>
    /\ err = ""
    /\ category_sales = << >>
    /\ ref = << >>

NextRepeat ==
    \/ CallFreqOn
    \/ FreqCountStep
    \/ FreqCounted
    \/ FreqSelectStep
    \/ FreqReturn
    \/ Remember

SpecRepeat == InitRepeat /\ [][NextRepeat]_vars
(* ------------------------------ properties ----------------------------- *)

\* What the properties say about a dataset, computed from the records
\* themselves.

\* The yield field is missing, None, empty or not a number.
BadYield(row) ==
    \/ "Yield_tons_per_hectare" \notin DOMAIN row
    \/ row.Yield_tons_per_hectare \in {"", "abc", None}

AllGood(d) == \A k \in 1..Len(d) : ~BadYield(d[k])

\* The position of the first record with a bad yield field.
FirstBad(d) ==
    CHOOSE k \in 1..Len(d) :
        BadYield(d[k]) /\ \A m \in 1..(k - 1) : ~BadYield(d[m])

Tenths(text) == IF text = "5.5" THEN 55 ELSE 48

RECURSIVE SumLens(_)
SumLens(cy) == IF cy = << >> THEN 0 ELSE Len(Head(cy)[2]) + SumLens(Tail(cy))

RECURSIVE SumCounts(_)
SumCounts(crops) ==
    IF crops = << >> THEN 0 ELSE Head(crops)[2] + SumCounts(Tail(crops))

\* The records among the first n with this region, and with this crop too.
InRegion(n, region) == {k \in 1..n : data[k].Region = region}

CountIn(region, crop) ==
    Cardinality({k \in InRegion(Len(data), region) : data[k].Crop = crop})

CropsIn(region) == {data[k].Crop : k \in InRegion(Len(data), region)}

\* The crops no crop of the region outnumbers.
Tied(region) ==
    {c \in CropsIn(region) :
        \A d \in CropsIn(region) : CountIn(region, c) >= CountIn(region, d)}

\* The position of the crop's first record in the region.
FirstPos(region, crop) ==
    CHOOSE k \in InRegion(Len(data), region) :
        /\ data[k].Crop = crop
        /\ \A m \in InRegion(Len(data), region) :
              data[m].Crop = crop => k <= m

WithCrop(crop) == {k \in 1..Len(data) : data[k].Crop = crop}

RECURSIVE TotalYield(_, _)
TotalYield(crop, k) ==
    IF k > Len(data) THEN 0
    ELSE (IF data[k].Crop = crop
          THEN Tenths(data[k].Yield_tons_per_hectare) ELSE 0)
         + TotalYield(crop, k + 1)

\* C1: while group_yields_by_crop loops, the lengths of the yield lists sum
\* to the number of records processed; the index it returns holds as many
\* values as the dataset has records; and it returns for every dataset
\* whose yields all parse.
C1_SummedLengths ==
    /\ pc = "g_loop" => SumLens(crop_yields) = i - 1
    /\ (top = "group_yields_by_crop" /\ pc = "returned")
          => SumLens(ret) = Len(data)
    /\ (top = "group_yields_by_crop" /\ AllGood(data)) => pc # "raised"

C1_Witness ==
    /\ top = "group_yields_by_crop"
    /\ pc = "returned"
    /\ Len(data) >= 3
    /\ Len(ret) >= 2

\* C2: while most_frequent_crop_by_region counts, and once it has counted,
\* the regions in region_crops are those of the records counted, each
\* region's counts sum to the number of its records counted, every count is
\* at least 1 and every crop counted occurs in that region.
C2_RegionCounts ==
    pc \in {"f_count", "f_select"} =>
        LET n == IF pc = "f_count" THEN i - 1 ELSE Len(data)
        IN  /\ KeySet(region_crops) = {data[k].Region : k \in 1..n}
            /\ \A r \in 1..Len(region_crops) :
                  LET region == region_crops[r][1]
                      crops == region_crops[r][2]
                  IN  /\ SumCounts(crops) = Cardinality(InRegion(n, region))
                      /\ \A c \in 1..Len(crops) :
                            /\ crops[c][2] >= 1
                            /\ \E k \in InRegion(n, region) :
                                  data[k].Crop = crops[c][1]

\* Two regions counted, one of them with a crop counted twice.
C2_Witness ==
    /\ pc = "f_select"
    /\ Len(region_crops) = 2
    /\ \E r \in 1..Len(region_crops) :
          \E c \in 1..Len(region_crops[r][2]) : region_crops[r][2][c][2] >= 2

\* C3: most_frequent_crop_by_region returns one entry for each region of
\* the dataset and no other, and a region's crop occurs in the region at
\* least as often as every other crop of the region.
C3_DominantCrop ==
    (top = "most_frequent_crop_by_region" /\ pc = "returned") =>
        /\ KeySet(ret) = {data[k].Region : k \in 1..Len(data)}
        /\ Len(ret) = Cardinality(KeySet(ret))
        /\ \A r \in 1..Len(ret) :
              /\ ret[r][2] \in CropsIn(ret[r][1])
              /\ \A c \in CropsIn(ret[r][1]) :
                    CountIn(ret[r][1], ret[r][2]) >= CountIn(ret[r][1], c)

\* A region whose first crop is outnumbered by the crop returned.
C3_Witness ==
    /\ top = "most_frequent_crop_by_region"
    /\ pc = "returned"
    /\ \E r \in 1..Len(ret) :
          \E k \in InRegion(Len(data), ret[r][1]) :
              /\ k < FirstPos(ret[r][1], ret[r][2])
              /\ CountIn(ret[r][1], data[k].Crop)
                    < CountIn(ret[r][1], ret[r][2])

\* C4: for a dataset whose yields all parse, calculate_average_yield
\* returns one entry for each crop of the dataset and no other, each the
\* sum of the crop's yields divided by the number of its records; a crop
\* with one record gets that record's yield.
C4_AverageYields ==
    /\ (top = "calculate_average_yield" /\ AllGood(data)) => pc # "raised"
    /\ (top = "calculate_average_yield" /\ pc = "returned") =>
          /\ KeySet(ret) = {data[k].Crop : k \in 1..Len(data)}
          /\ Len(ret) = Cardinality(KeySet(ret))
          /\ \A c \in 1..Len(ret) :
                LET crop == ret[c][1]
                    avg == ret[c][2]
                    n == Cardinality(WithCrop(crop))
                IN  /\ avg[2] > 0
                    /\ avg[1] * n = TotalYield(crop, 1) * avg[2]
                    /\ n = 1 => avg = <<TotalYield(crop, 1), 1>>

C4_Witness ==
    /\ top = "calculate_average_yield"
    /\ pc = "returned"
    /\ Len(ret) = 2
    /\ \E c \in 1..2 : Cardinality(WithCrop(ret[c][1])) = 2 /\ ret[c][2][2] = 2
    /\ \E c \in 1..2 : Cardinality(WithCrop(ret[c][1])) = 1

\* C5 as stated: group_yields_by_crop ends, for every dataset with a bad
\* yield field, in the one exception the test expects (ValueError), raised
\* at the first such record, with nothing returned.
C5_SingleErrorKind ==
    (top = "group_yields_by_crop" /\ ~AllGood(data)
        /\ pc \in {"returned", "raised"}) =>
        /\ pc = "raised"
        /\ err = "ValueError"
        /\ i = FirstBad(data)
        /\ ret = << >>

\* C5: group_yields_by_crop never returns for a dataset with a bad yield
\* field; it never goes past the first such record, the exception is
\* raised there and nothing is returned.  The exception is KeyError when
\* the key is missing, TypeError when the field is None, and ValueError
\* when the text is empty or not a number.
C5_FailsAtFirstBadYield ==
    (top = "group_yields_by_crop" /\ ~AllGood(data)) =>
        /\ pc # "returned"
        /\ pc = "g_loop" => i <= FirstBad(data)
        /\ pc = "raised" =>
              /\ i = FirstBad(data)
              /\ ret = << >>
              /\ crop_yields = << >>
              /\ LET row == data[FirstBad(data)]
                 IN  err = IF "Yield_tons_per_hectare" \notin DOMAIN row
                           THEN "KeyError"
                           ELSE IF row.Yield_tons_per_hectare = None
                           THEN "TypeError"
                           ELSE "ValueError"

\* The failure comes after valid records.
C5_Witness ==
    /\ top = "group_yields_by_crop"
    /\ pc = "raised"
    /\ err = "ValueError"
    /\ i >= 2
    /\ i < Len(data)

C7_RepeatedCallsAgree ==
    (top = "most_frequent_crop_by_region" /\ pc = "returned") =>
        /\ \A r \in 1..Len(ret) : ret[r][2] \in Tied(ret[r][1])
        /\ (ref # << >> /\ data = ref[1]) => ret = ref[2]

\* A dataset with a tie, called again after a call on another dataset.
C7_Witness ==
    /\ top = "most_frequent_crop_by_region"
    /\ pc = "returned"
    /\ ref # << >>
    /\ ref[3]
    /\ data = ref[1]
    /\ \E r \in 1..Len(ret) : Cardinality(Tied(ret[r][1])) >= 2

\* C8: among the crops tied for a region's maximum count,
\* most_frequent_crop_by_region returns the one whose first record in the
\* region comes first in the dataset.
C8_FirstEncounteredWins ==
    (top = "most_frequent_crop_by_region" /\ pc = "returned") =>
        \A r \in 1..Len(ret) :
            /\ ret[r][2] \in Tied(ret[r][1])
            /\ \A c \in Tied(ret[r][1]) :
                  FirstPos(ret[r][1], ret[r][2]) <= FirstPos(ret[r][1], c)

\* A tie won by the crop that is neither the last met nor the first in
\* alphabetical order.
C8_Witness ==
    /\ top = "most_frequent_crop_by_region"
    /\ pc = "returned"
    /\ \E r \in 1..Len(ret) :
          /\ ret[r][2] = "Wheat"
          /\ "Rice" \in Tied(ret[r][1])

C10_MainOrder ==
    top = "main" =>
        /\ \E n \in 0..5 :
              log = SubSeq(<<"load_data", "calculate_average_yield",
                             "most_frequent_crop_by_region",
                             "open average_yield_results.csv",
                             "open most_common_crops_by_region.txt">>, 1, n)
        /\ pc = "raised" =>
              \A k \in 1..Len(log) :
                  log[k] \notin {"open average_yield_results.csv",
                                 "open most_common_crops_by_region.txt"}

\* A run of main() that reaches its end on a dataset of several records.
C10_Witness ==
    /\ top = "main"
    /\ pc = "returned"
    /\ Len(log) = 5
    /\ Len(data) >= 2

====
